---------------------------- MODULE Spec2Model ----------------------------
(***************************************************************************)
(* Project Gutenberg Word Explorer (books/views.py, books/models.py).      *)
(*                                                                         *)
(* Texts, titles and words are sequences of one-character strings, so that *)
(* lowercasing, punctuation replacement, splitting and trimming are        *)
(* computed character by character as the Python code computes them.       *)
(* Characters are ASCII; str.isalpha and str.lower are modelled on the     *)
(* ASCII letters.                                                          *)
(***************************************************************************)
EXTENDS Integers, Sequences, FiniteSets, TLC

VARIABLES
    stage,          \* position of the text-analysis run: "input", "done", "renormalized"
    text,           \* the document text given to clean_text_to_words / extract_title
    words,          \* clean_text_to_words(text)
    rewords,        \* clean_text_to_words of words joined by single spaces
    doc_lines,      \* the lines the document text was assembled from
    doc_title,      \* extract_title_from_gutenberg(text)
    tokens,         \* the token sequence given to the ranking step
    limit,          \* the limit given to the ranking step
    ranked,         \* Counter(tokens).most_common(limit)
    books,          \* Book table, rows in primary-key order
    wordfreqs,      \* WordFrequency table, rows in primary-key (insertion) order
    request,        \* the last request handled by book_search_view
    response,       \* the outcome of that request (status and template context)
    analysis,       \* title and top_words computed by that request (empty if none)
    fetch_attempts  \* number of urlopen calls made while handling that request

vars == <<stage, text, words, rewords, doc_lines, doc_title, tokens, limit,
          ranked, books, wordfreqs, request, response, analysis,
          fetch_attempts>>

textVars == <<text, words, rewords>>
titleVars == <<doc_lines, doc_title>>
rankVars == <<tokens, limit, ranked>>
appVars == <<books, wordfreqs, request, response, analysis, fetch_attempts>>

----------------------------------------------------------------------------
(* Bounds of the model. *)

MaxTextLen == 5
MaxTokens == 5
MaxLimit == 4
MaxLines == 2

----------------------------------------------------------------------------
(* Characters and strings. *)

LowerLetters ==
    <<"a","b","c","d","e","f","g","h","i","j","k","l","m",
      "n","o","p","q","r","s","t","u","v","w","x","y","z">>

UpperLetters ==
    <<"A","B","C","D","E","F","G","H","I","J","K","L","M",
      "N","O","P","Q","R","S","T","U","V","W","X","Y","Z">>

Range(s) == {s[i] : i \in 1..Len(s)}

\* the characters str.split() and str.strip() treat as whitespace
Whitespace == {" ", "\t", "\n", "\r", "\f"}

LowerSet == Range(LowerLetters)

UpperSet == Range(UpperLetters)

\* str.isalpha on one character
IsAlphaChar(c) == c \in LowerSet \cup UpperSet

\* the lowercase letter of each uppercase letter
LowerOf ==
    [c \in UpperSet |->
        LowerLetters[CHOOSE i \in 1..Len(UpperLetters) : UpperLetters[i] = c]]

\* str.lower on one character
LowerChar(c) == IF c \in UpperSet THEN LowerOf[c] ELSE c

\* str.lower
Lower(s) == [i \in 1..Len(s) |-> LowerChar(s[i])]

\* str.isalpha: non-empty and every character alphabetic
IsAlpha(w) == Len(w) > 0 /\ \A i \in 1..Len(w) : IsAlphaChar(w[i])

\* the Python str a character sequence stands for
RECURSIVE Str(_)
Str(w) == IF w = <<>> THEN "" ELSE w[1] \o Str(Tail(w))

\* str.replace(ch, " ") for a one-character ch
Replace(s, ch) == [i \in 1..Len(s) |-> IF s[i] = ch THEN " " ELSE s[i]]

\* the least index from i on at which s holds a character of (or, with
\* inside = FALSE, not of) the set cs; Len(s) + 1 if there is none
RECURSIVE IndexFrom(_, _, _, _)
IndexFrom(s, i, cs, inside) ==
    IF i > Len(s) \/ (s[i] \in cs) = inside
    THEN i
    ELSE IndexFrom(s, i + 1, cs, inside)

\* str.split(): skip whitespace, take the run up to the next whitespace,
\* and go on after it, until the text is used up
RECURSIVE SplitFrom(_, _)
SplitFrom(s, i) ==
    LET start == IndexFrom(s, i, Whitespace, FALSE)
        end == IndexFrom(s, start, Whitespace, TRUE)
    IN  IF start > Len(s) THEN <<>>
        ELSE <<SubSeq(s, start, end - 1)>> \o SplitFrom(s, end)

Split(s) == SplitFrom(s, 1)

\* str.strip(): leading and trailing whitespace removed
RECURSIVE LStrip(_)
LStrip(s) ==
    IF s # <<>> /\ s[1] \in Whitespace THEN LStrip(Tail(s)) ELSE s

RECURSIVE RStrip(_)
RStrip(s) ==
    IF s # <<>> /\ s[Len(s)] \in Whitespace
    THEN RStrip(SubSeq(s, 1, Len(s) - 1))
    ELSE s

Strip(s) == RStrip(LStrip(s))

\* " ".join(ws)
RECURSIVE JoinSpace(_)
JoinSpace(ws) ==
    IF ws = <<>> THEN <<>>
    ELSE IF Len(ws) = 1 THEN ws[1]
    ELSE ws[1] \o <<" ">> \o JoinSpace(Tail(ws))

----------------------------------------------------------------------------
(* clean_text_to_words *)

STOPWORDS == {
    "i", "you", "he", "she", "it", "we", "they",
    "me", "him", "her", "us", "them",
    "my", "your", "yours", "his", "its", "our", "ours", "their", "theirs",
    "a", "an", "the", "this", "that", "these", "those",
    "and", "or", "but", "so", "yet", "for", "nor",
    "because", "although", "since", "while", "as", "if", "when", "though", "which",
    "in", "on", "at", "by", "to", "from", "of", "off", "out",
    "over", "under", "up", "down", "with", "without", "into",
    "about", "before", "after", "between", "through", "during",
    "is", "am", "are", "was", "were", "be", "been", "being",
    "have", "has", "had", "do", "does", "did",
    "can", "could", "shall", "should", "will", "would",
    "may", "might", "must",
    "very", "just", "then", "there", "here", "again", "like",
    "now", "how", "where", "why", "who", "what",
    "go", "went", "come", "came", "said", "took", "get", "got",
    "make", "made", "see", "saw", "know", "take", "give", "gave",
    "all", "any", "some", "no", "not",
    "away",
    "one", "two", "three" }

\* ",.;:!?\"'()[]{}-_*/\\\n\r\t"
chars_to_replace ==
    <<",", ".", ";", ":", "!", "?", "\"", "'", "(", ")", "[", "]", "{", "}",
      "-", "_", "*", "/", "\\", "\n", "\r", "\t">>

\* for ch in chars_to_replace: text = text.replace(ch, " ")
RECURSIVE ReplaceAll(_, _)
ReplaceAll(s, chars) ==
    IF chars = <<>> THEN s ELSE ReplaceAll(Replace(s, chars[1]), Tail(chars))

\* a filter that accepts one-letter words
KeepWordAnyLength(w) == IsAlpha(w) /\ Str(w) \notin STOPWORDS /\ Len(w) > 0

\* w.isalpha() and w not in STOPWORDS and len(w) > 1
KeepWord(w) == IsAlpha(w) /\ Str(w) \notin STOPWORDS /\ Len(w) > 1

\* [w for w in words if w.isalpha() and w not in STOPWORDS and len(w) > 1]
RECURSIVE FilterWords(_)
FilterWords(ws) ==
    IF ws = <<>> THEN <<>>
    ELSE (IF KeepWord(ws[1]) THEN <<ws[1]>> ELSE <<>>) \o FilterWords(Tail(ws))

\* the stopword and length filter applied before the text is lowercased
CleanFilterBeforeLower(t) ==
    LET ws == FilterWords(Split(ReplaceAll(t, chars_to_replace)))
    IN  [i \in 1..Len(ws) |-> Lower(ws[i])]

clean_text_to_words(t) ==
    FilterWords(Split(ReplaceAll(Lower(t), chars_to_replace)))

----------------------------------------------------------------------------
(* compute_top_words: collections.Counter and Counter.most_common *)

\* Counter(words): <<word, count>> pairs in order of first insertion
RECURSIVE CountInto(_, _)
CountInto(counts, ws) ==
    IF ws = <<>> THEN counts
    ELSE LET w == ws[1] IN
         IF \E i \in 1..Len(counts) : counts[i][1] = w
         THEN CountInto([i \in 1..Len(counts) |->
                            IF counts[i][1] = w
                            THEN <<w, counts[i][2] + 1>>
                            ELSE counts[i]],
                        Tail(ws))
         ELSE CountInto(Append(counts, <<w, 1>>), Tail(ws))

Counter(ws) == CountInto(<<>>, ws)

\* an insertion that puts a pair before the pairs of equal count
InsertBeforeEqual(sorted, e) ==
    LET n == Cardinality({i \in 1..Len(sorted) : sorted[i][2] > e[2]})
    IN  SubSeq(sorted, 1, n) \o <<e>> \o SubSeq(sorted, n + 1, Len(sorted))

\* one step of the stable descending sort: a pair goes after every pair
\* already placed whose count is greater or equal
InsertDescending(sorted, e) ==
    LET n == Cardinality({i \in 1..Len(sorted) : sorted[i][2] >= e[2]})
    IN  SubSeq(sorted, 1, n) \o <<e>> \o SubSeq(sorted, n + 1, Len(sorted))

\* sorted(items, key=itemgetter(1), reverse=True)
RECURSIVE SortDescending(_, _)
SortDescending(sorted, items) ==
    IF items = <<>> THEN sorted
    ELSE SortDescending(InsertDescending(sorted, items[1]), Tail(items))

\* s[:n] for n >= 0
Take(s, n) == SubSeq(s, 1, IF n < Len(s) THEN n ELSE Len(s))

\* Counter.most_common(n) = heapq.nlargest(n, items, key=itemgetter(1)),
\* which equals sorted(items, key=itemgetter(1), reverse=True)[:n]
most_common(counts, n) == Take(SortDescending(<<>>, counts), n)

\* a ranking that is never truncated
compute_all_words(t, n) ==
    LET counts == Counter(clean_text_to_words(t))
    IN  most_common(counts, Len(counts))

compute_top_words(t, n) == most_common(Counter(clean_text_to_words(t)), n)

----------------------------------------------------------------------------
(* extract_title_from_gutenberg *)

\* the line boundaries of str.splitlines(); "\r\n" is one boundary
LineBreaks == {"\n", "\r", "\f"}

\* str.splitlines(): the lines without their boundaries; a final boundary
\* opens no further line
RECURSIVE SplitLinesFrom(_, _)
SplitLinesFrom(s, i) ==
    LET end == IndexFrom(s, i, LineBreaks, TRUE)
        next == IF end < Len(s) /\ s[end] = "\r" /\ s[end + 1] = "\n"
                THEN end + 2 ELSE end + 1
    IN  IF i > Len(s) THEN <<>>
        ELSE <<SubSeq(s, i, end - 1)>> \o SplitLinesFrom(s, next)

SplitLines(s) == SplitLinesFrom(s, 1)

\* str.startswith
StartsWith(s, prefix) ==
    Len(s) >= Len(prefix) /\ SubSeq(s, 1, Len(prefix)) = prefix

\* line.split(":")[1]: the part between the first and the second colon
BetweenColons(line) ==
    LET i == CHOOSE k \in 1..Len(line) :
                 line[k] = ":" /\ \A j \in 1..(k - 1) : line[j] # ":"
        rest == SubSeq(line, i + 1, Len(line))
        later == {k \in 1..Len(rest) : rest[k] = ":"}
    IN  IF later = {} THEN rest
        ELSE SubSeq(rest, 1, (CHOOSE k \in later : \A j \in later : k <= j) - 1)

\* line.split(":", 1)[1]: everything after the first colon of the line
AfterFirstColon(line) ==
    LET i == CHOOSE k \in 1..Len(line) :
                 line[k] = ":" /\ \A j \in 1..(k - 1) : line[j] # ":"
    IN  SubSeq(line, i + 1, Len(line))

TitlePrefix == <<"t", "i", "t", "l", "e", ":">>

UnknownTitle == <<"U", "n", "k", "n", "o", "w", "n", " ", "T", "i", "t", "l", "e">>

\* for line in text.splitlines(): if line.lower().startswith("title:"): return ...
RECURSIVE TitleOfLines(_)
TitleOfLines(lines) ==
    IF lines = <<>> THEN UnknownTitle
    ELSE IF StartsWith(Lower(lines[1]), TitlePrefix)
         THEN Strip(AfterFirstColon(lines[1]))
         ELSE TitleOfLines(Tail(lines))

extract_title_from_gutenberg(t) == TitleOfLines(SplitLines(t))

----------------------------------------------------------------------------
(* fetch_gutenberg_text *)

\* urllib.request.Request(url): a URL without a "<scheme>:" prefix is
\* rejected with ValueError("unknown url type")
HasScheme(url) ==
    \E k \in 2..Len(url) :
        url[k] = ":" /\ \A j \in 1..(k - 1) : url[j] \notin {"/", ":"}

\* no urlopen call was made
NoWeb == [raises |-> "unused", text |-> <<>>]

\* try: urlopen(url).read().decode("utf-8", errors="ignore")
\* except (HTTPError, URLError): raise RuntimeError
\* web is what urlopen does: the exception it raises ("" for none) or the
\* decoded body; any other exception propagates unchanged
fetch_gutenberg_text(web) ==
    IF web.raises \in {"HTTPError", "URLError"}
    THEN [raises |-> "RuntimeError", text |-> <<>>]
    ELSE web

----------------------------------------------------------------------------
(* The Book and WordFrequency tables (books/models.py). *)

\* Book.objects.filter(title=title): exact, case-sensitive match
BooksTitled(bs, title) == {pk \in 1..Len(bs) : bs[pk].title = title}

\* Book.objects.filter(title__iexact=title): match ignoring ASCII case
BooksTitledIexact(bs, title) ==
    {pk \in 1..Len(bs) : Lower(bs[pk].title) = Lower(title)}

\* Book.objects.get_or_create(title=title, defaults={"gutenberg_url": url})
get_or_create(bs, title, url) ==
    IF BooksTitled(bs, title) # {}
    THEN bs
    ELSE Append(bs, [title |-> title, gutenberg_url |-> url])

\* a save that leaves the stored URL as it was
keep_url(bs, pk, url) == bs

\* book.gutenberg_url = url; book.save()
save_url(bs, pk, url) == [bs EXCEPT ![pk].gutenberg_url = url]

\* a delete that removes nothing
keep_frequencies(wfs, pk) == wfs

\* WordFrequency.objects.filter(book=book).delete()
delete_frequencies(wfs, pk) == SelectSeq(wfs, LAMBDA r : r.book # pk)

\* for word, freq in top_words[:n]: WordFrequency.objects.create(...)
\* unique_together = ('book', 'word'): a second row for the same book and
\* word raises IntegrityError
RECURSIVE create_frequencies(_, _, _, _)
create_frequencies(wfs, pk, top, n) ==
    IF n = 0 \/ top = <<>>
    THEN [rows |-> wfs, failed |-> FALSE]
    ELSE IF \E i \in 1..Len(wfs) : wfs[i].book = pk /\ wfs[i].word = top[1][1]
         THEN [rows |-> wfs, failed |-> TRUE]
         ELSE create_frequencies(
                  Append(wfs, [book |-> pk, word |-> top[1][1],
                               frequency |-> top[1][2]]),
                  pk, Tail(top), n - 1)

\* the rows of one book, in primary-key order
FrequenciesOf(wfs, pk) == SelectSeq(wfs, LAMBDA r : r.book = pk)

\* the body of the "with transaction.atomic():" block.  The writes are, in
\* order: creating or saving the book, deleting the old entries, inserting
\* each new entry.  The fail_at-th write raises (0: no write raises).
update_book(db, title, url, top, fail_at) ==
    LET created == BooksTitled(db.books, title) = {} IN
    IF fail_at = 1
    THEN [books |-> db.books, wordfreqs |-> db.wordfreqs,
          failed |-> TRUE, created |-> created, pk |-> 0]
    ELSE LET bs == IF created
                   THEN get_or_create(db.books, title, url)
                   ELSE save_url(db.books,
                                 CHOOSE b \in BooksTitled(db.books, title) : TRUE,
                                 url)
             pk == CHOOSE b \in BooksTitled(bs, title) : TRUE
         IN  IF fail_at = 2
             THEN [books |-> bs, wordfreqs |-> db.wordfreqs,
                   failed |-> TRUE, created |-> created, pk |-> pk]
             ELSE LET ins == create_frequencies(
                                 delete_frequencies(db.wordfreqs, pk), pk, top,
                                 IF fail_at = 0 THEN Len(top) ELSE fail_at - 3)
                  IN  [books |-> bs, wordfreqs |-> ins.rows,
                       failed |-> ins.failed \/ fail_at # 0,
                       created |-> created, pk |-> pk]

\* a block whose writes stay when it raises
without_rollback(db, run) == [books |-> run.books, wordfreqs |-> run.wordfreqs]

\* transaction.atomic(): the writes of a block that raises are rolled back
transaction_atomic(db, run) ==
    IF run.failed
    THEN db
    ELSE [books |-> run.books, wordfreqs |-> run.wordfreqs]

IndexOrders(n) ==
    {f \in [1..n -> 1..n] : \A i, j \in 1..n : i # j => f[i] # f[j]}

MaxFrequency(rows) ==
    CHOOSE m \in {rows[i].frequency : i \in 1..Len(rows)} :
        \A i \in 1..Len(rows) : rows[i].frequency <= m

\* Meta.ordering = ['-frequency']: ORDER BY frequency DESC.  The database
\* may return rows of equal frequency in any order.
RECURSIVE OrderedByFrequency(_)
OrderedByFrequency(rows) ==
    IF rows = <<>> THEN {<<>>}
    ELSE LET m == MaxFrequency(rows)
             top == SelectSeq(rows, LAMBDA r : r.frequency = m)
             rest == SelectSeq(rows, LAMBDA r : r.frequency # m)
         IN  {[i \in 1..Len(top) |-> top[f[i]]] \o r :
                 f \in IndexOrders(Len(top)), r \in OrderedByFrequency(rest)}

----------------------------------------------------------------------------
(* book_search_view *)

\* limit=10 in the call of compute_top_words; [:10] in the querysets
TopLimit == 10

\* title and top_words are not computed
NoAnalysis == [title |-> <<>>, top_words |-> <<>>]

DefaultContext ==
    [status |-> 200, title_query |-> <<>>, url_query |-> <<>>,
     book |-> <<>>, word_frequencies |-> <<>>, message |-> "", error |-> ""]

\* an exception that leaves the view: the framework answers with status 500
ServerError == [DefaultContext EXCEPT !.status = 500]

EnterTitle == "Please enter a book title."

FoundNoFrequencies == "Book found in database, but no word frequencies stored."

NotFound ==
    "Book not found in local database. " \o
    "If this is a Project Gutenberg book, paste its text URL below to add it."

EnterUrl == "Please enter a Project Gutenberg text URL."

\* except RuntimeError
FetchFailed == "Book was not found. Please check the URL and try again."

\* except Exception
UnexpectedError ==
    "Book was not found. Please check the Project Gutenberg URL is correct."

LoadedMessage(title) ==
    "Loaded '" \o Str(title) \o "' from Project Gutenberg and added to the database."

UpdatedMessage(title) ==
    "Updated '" \o Str(title) \o "' in the database with new word frequencies."

BookObject(bs, pk) ==
    [pk |-> pk, title |-> bs[pk].title, gutenberg_url |-> bs[pk].gutenberg_url]

----------------------------------------------------------------------------
(* Text-analysis runs: the pure functions applied to bounded inputs. *)

Alphabet == {"a", "n", "A", "7", ".", " "}

Texts == UNION {[1..n -> Alphabet] : n \in 0..MaxTextLen}

\* no request has been handled
IdleApp ==
    /\ books = <<>>
    /\ wordfreqs = <<>>
    /\ request = [kind |-> "none", title |-> <<>>, url |-> <<>>,
                  web |-> [raises |-> "unused", text |-> <<>>], fail_at |-> 0]
    /\ response = [status |-> 0, title_query |-> <<>>, url_query |-> <<>>,
                   book |-> <<>>, word_frequencies |-> <<>>,
                   message |-> "", error |-> ""]
    /\ analysis = [title |-> <<>>, top_words |-> <<>>]
    /\ fetch_attempts = 0

InitNormalize ==
    /\ stage = "input"
    /\ text \in Texts
    /\ words = <<>>
    /\ rewords = <<>>
    /\ doc_lines = <<>>
    /\ doc_title = <<>>
    /\ tokens = <<>>
    /\ limit = 0
    /\ ranked = <<>>
    /\ IdleApp

\* words = clean_text_to_words(text)
Normalize ==
    /\ stage = "input"
    /\ words' = clean_text_to_words(text)
    /\ stage' = "done"
    /\ UNCHANGED <<text, rewords, titleVars, rankVars, appVars>>

\* clean_text_to_words(" ".join(words))
Renormalize ==
    /\ stage = "done"
    /\ rewords' = clean_text_to_words(JoinSpace(words))
    /\ stage' = "renormalized"
    /\ UNCHANGED <<text, words, titleVars, rankVars, appVars>>

NextNormalize == Normalize \/ Renormalize

SpecNormalize == InitNormalize /\ [][NextNormalize]_vars


----------------------------------------------------------------------------
(* Ranking runs: Counter(tokens).most_common(limit) on bounded inputs. *)

RankWords == {"fox", "dog", "cat"}

TokenSeqs == UNION {[1..n -> RankWords] : n \in 0..MaxTokens}

InitRank ==
    /\ stage = "input"
    /\ tokens \in TokenSeqs
    /\ limit \in 0..MaxLimit
    /\ ranked = <<>>
    /\ text = <<>>
    /\ words = <<>>
    /\ rewords = <<>>
    /\ doc_lines = <<>>
    /\ doc_title = <<>>
    /\ IdleApp

\* counts = Counter(words); return counts.most_common(limit)
Rank ==
    /\ stage = "input"
    /\ ranked' = most_common(Counter(tokens), limit)
    /\ stage' = "done"
    /\ UNCHANGED <<tokens, limit, textVars, titleVars, appVars>>

NextRank == Rank

SpecRank == InitRank /\ [][NextRank]_vars

----------------------------------------------------------------------------
(* Title runs: extract_title_from_gutenberg on documents of bounded lines. *)

SampleLines == {
    <<"T", "i", "t", "l", "e", ":", " ", "E", "m", "m", "a">>,
    <<"T", "I", "T", "L", "E", ":", "E", "m", "m", "a", " ">>,
    <<"t", "i", "t", "l", "e", ":", " ", "a", ":", "b">>,
    <<" ", "T", "i", "t", "l", "e", ":", " ", "x">>,
    <<"T", "i", "t", "l", "e", "s", ":", " ", "x">>,
    <<>>,
    <<"T", "i", "t", "l", "e", ":">> }

LineEnds == {<<"\n">>, <<"\r", "\n">>}

LineSeqs == UNION {[1..n -> SampleLines] : n \in 0..MaxLines}

\* the document whose lines are ls, separated by sep
RECURSIVE JoinLines(_, _)
JoinLines(ls, sep) ==
    IF ls = <<>> THEN <<>>
    ELSE IF Len(ls) = 1 THEN ls[1]
    ELSE ls[1] \o sep \o JoinLines(Tail(ls), sep)

InitTitle ==
    /\ stage = "input"
    /\ doc_lines \in LineSeqs
    /\ \E sep \in LineEnds : text = JoinLines(doc_lines, sep)
    /\ doc_title = <<>>
    /\ words = <<>>
    /\ rewords = <<>>
    /\ tokens = <<>>
    /\ limit = 0
    /\ ranked = <<>>
    /\ IdleApp

\* title = extract_title_from_gutenberg(full_text)
ExtractTitle ==
    /\ stage = "input"
    /\ doc_title' = extract_title_from_gutenberg(text)
    /\ stage' = "done"
    /\ UNCHANGED <<text, words, rewords, doc_lines, rankVars, appVars>>

NextTitle == ExtractTitle

SpecTitle == InitTitle /\ [][NextTitle]_vars

----------------------------------------------------------------------------
(* The application: requests handled by book_search_view. *)

\* "Title: Emma\nfox fox emma"
DocEmma ==
    <<"T", "i", "t", "l", "e", ":", " ", "E", "m", "m", "a", "\n", "f",
      "o", "x", " ", "f", "o", "x", " ", "e", "m", "m", "a">>

\* "TITLE:Emma \r\nThe bee ash sea ant sky elm owl sun oak s ..."
DocEmmaRevised ==
    <<"T", "I", "T", "L", "E", ":", "E", "m", "m", "a", " ", "\r", "\n",
      "T", "h", "e", " ", "b", "e", "e", " ", "a", "s", "h", " ", "s", "e",
      "a", " ", "a", "n", "t", " ", "s", "k", "y", " ", "e", "l", "m", " ",
      "o", "w", "l", " ", "s", "u", "n", " ", "o", "a", "k", " ", "s", "e",
      "a", " ", "s", "k", "y", " ", "s", "u", "n", ",", "\n", "o", "a",
      "k", " ", "e", "l", "m", " ", "a", "s", "h", " ", "b", "e", "e", " ",
      "a", "n", "t", " ", "s", "e", "a", " ", "s", "k", "y", " ", "s", "u",
      "n", " ", "o", "a", "k", " ", "e", "l", "m", " ", "a", "s", "h", " ",
      "b", "e", "e", " ", "s", "e", "a", " ", "s", "k", "y", " ", "s", "u",
      "n", " ", "o", "a", "k", " ", "e", "l", "m", " ", "a", "s", "h", " ",
      "s", "e", "a", " ", "s", "k", "y", " ", "s", "u", "n", " ", "o", "a",
      "k", " ", "e", "l", "m", " ", "s", "e", "a", " ", "s", "k", "y", " ",
      "s", "u", "n", " ", "o", "a", "k", " ", "s", "e", "a", " ", "s", "k",
      "y", " ", "s", "u", "n", " ", "s", "e", "a", " ", "s", "k", "y", " ",
      "s", "e", "a", ".">>

\* "Title: EMMA\nemma"
DocEmmaUpper ==
    <<"T", "i", "t", "l", "e", ":", " ", "E", "M", "M", "A", "\n", "e",
      "m", "m", "a">>

\* "A fox; the fox."
DocUntitled ==
    <<"A", " ", "f", "o", "x", ";", " ", "t", "h", "e", " ", "f", "o", "x",
      ".">>

\* "the 7 a"
DocNoWords ==
    <<"t", "h", "e", " ", "7", " ", "a">>

\* "http://g/1"
UrlOne == <<"h", "t", "t", "p", ":", "/", "/", "g", "/", "1">>

\* "http://g/2"
UrlTwo == <<"h", "t", "t", "p", ":", "/", "/", "g", "/", "2">>

\* "", "http://g/1", " http://g/2" and "g/1"
UrlInputs == {<<>>, UrlOne, <<" ">> \o UrlTwo, <<"g", "/", "1">>}

\* the documents a server may return for a URL
Served(url) ==
    IF url = UrlOne THEN {DocEmma, DocEmmaRevised, DocUntitled}
    ELSE IF url = UrlTwo THEN {DocEmmaUpper, DocNoWords}
    ELSE {}

\* " ", "emma " and "Unknown Title"
TitleInputs == {
    <<" ">>,
    <<"e", "m", "m", "a", " ">>,
    <<"U", "n", "k", "n", "o", "w", "n", " ", "T", "i", "t", "l", "e">> }

\* what a urlopen call can do: return a document, or raise
WebOutcomes(url) ==
    IF HasScheme(url)
    THEN {[raises |-> "", text |-> d] : d \in Served(url)}
         \cup {[raises |-> e, text |-> <<>>] : e \in {"HTTPError", "URLError"}}
    ELSE {[raises |-> "ValueError", text |-> <<>>]}

Init ==
    /\ stage = "app"
    /\ books = <<>>
    /\ wordfreqs = <<>>
    /\ request = [kind |-> "none", title |-> <<>>, url |-> <<>>,
                  web |-> NoWeb, fail_at |-> 0]
    /\ response = [DefaultContext EXCEPT !.status = 0]
    /\ analysis = NoAnalysis
    /\ fetch_attempts = 0
    /\ text = <<>>
    /\ words = <<>>
    /\ rewords = <<>>
    /\ doc_lines = <<>>
    /\ doc_title = <<>>
    /\ tokens = <<>>
    /\ limit = 0
    /\ ranked = <<>>

\* request.method != "POST": the page is rendered with the default context
Get ==
    /\ request' = [kind |-> "get", title |-> <<>>, url |-> <<>>,
                   web |-> NoWeb, fail_at |-> 0]
    /\ response' = DefaultContext
    /\ analysis' = NoAnalysis
    /\ fetch_attempts' = 0
    /\ UNCHANGED <<stage, textVars, titleVars, rankVars, books, wordfreqs>>

\* POST with "search_title"
SearchTitle ==
    \E raw \in TitleInputs :
        \E title \in {Strip(raw)} :
        \E found \in {BooksTitledIexact(books, title)} :
        /\ request' = [kind |-> "search", title |-> raw, url |-> <<>>,
                       web |-> NoWeb, fail_at |-> 0]
        /\ analysis' = NoAnalysis
        /\ fetch_attempts' = 0
        /\ IF title = <<>>
           THEN response' = [DefaultContext EXCEPT !.title_query = title,
                                                    !.error = EnterTitle]
           ELSE IF found = {}
           THEN \* Book.DoesNotExist
                response' = [DefaultContext EXCEPT !.title_query = title,
                                                    !.message = NotFound]
           ELSE IF Cardinality(found) > 1
           THEN \* Book.MultipleObjectsReturned is not caught
                response' = ServerError
           ELSE \E pk \in found :
                \E shown \in OrderedByFrequency(FrequenciesOf(wordfreqs, pk)) :
                    response' =
                        [DefaultContext EXCEPT
                            !.title_query = title,
                            !.book = <<BookObject(books, pk)>>,
                            !.word_frequencies = <<Take(shown, TopLimit)>>,
                            !.message = IF shown = <<>>
                                        THEN FoundNoFrequencies ELSE ""]
        /\ UNCHANGED <<stage, textVars, titleVars, rankVars, books, wordfreqs>>

\* POST with "load_url".  The assignment to context["word_frequencies"]
\* (views.py lines 237-238) opens a parenthesis that the source never closes;
\* it is read here as closed after the [:10] slice.
LoadUrl ==
    \E raw \in UrlInputs :
        \E url \in {Strip(raw)} :
        IF url = <<>>
        THEN /\ request' = [kind |-> "load", title |-> <<>>, url |-> raw,
                            web |-> NoWeb, fail_at |-> 0]
             /\ response' = [DefaultContext EXCEPT !.url_query = url,
                                                    !.error = EnterUrl]
             /\ analysis' = NoAnalysis
             /\ fetch_attempts' = 0
             /\ UNCHANGED <<stage, textVars, titleVars, rankVars, books, wordfreqs>>
        ELSE \E web \in WebOutcomes(url) :
             \E fetched \in {fetch_gutenberg_text(web)} :
             /\ fetch_attempts' = 1
             /\ UNCHANGED <<stage, textVars, titleVars, rankVars>>
             /\ IF fetched.raises = "RuntimeError"
                THEN /\ request' = [kind |-> "load", title |-> <<>>, url |-> raw,
                                    web |-> web, fail_at |-> 0]
                     /\ response' = [DefaultContext EXCEPT !.url_query = url,
                                                            !.error = FetchFailed]
                     /\ analysis' = NoAnalysis
                     /\ UNCHANGED <<books, wordfreqs>>
                ELSE IF fetched.raises # ""
                THEN /\ request' = [kind |-> "load", title |-> <<>>, url |-> raw,
                                    web |-> web, fail_at |-> 0]
                     /\ response' = [DefaultContext EXCEPT !.url_query = url,
                                                            !.error = UnexpectedError]
                     /\ analysis' = NoAnalysis
                     /\ UNCHANGED <<books, wordfreqs>>
                ELSE \E title \in {extract_title_from_gutenberg(fetched.text)} :
                     \E top_words \in {compute_top_words(fetched.text, TopLimit)} :
                     \E fail_at \in 0..(2 + Len(top_words)) :
                     \E db \in {[books |-> books, wordfreqs |-> wordfreqs]} :
                     \E run \in {update_book(db, title, url, top_words, fail_at)} :
                     \E after \in {transaction_atomic(db, run)} :
                     /\ request' = [kind |-> "load", title |-> <<>>, url |-> raw,
                                    web |-> web, fail_at |-> fail_at]
                     /\ analysis' = [title |-> title, top_words |-> top_words]
                     /\ books' = after.books
                     /\ wordfreqs' = after.wordfreqs
                     /\ IF run.failed
                        THEN \* except Exception: the block was rolled back
                             response' = [DefaultContext EXCEPT
                                             !.url_query = url,
                                             !.error = UnexpectedError]
                        ELSE \E shown \in OrderedByFrequency(
                                     FrequenciesOf(after.wordfreqs, run.pk)) :
                             response' =
                                 [DefaultContext EXCEPT
                                     !.url_query = url,
                                     !.book = <<BookObject(after.books, run.pk)>>,
                                     !.word_frequencies = <<Take(shown, TopLimit)>>,
                                     !.message = IF run.created
                                                 THEN LoadedMessage(title)
                                                 ELSE UpdatedMessage(title)]

Next == Get \/ SearchTitle \/ LoadUrl

Spec == Init /\ [][Next]_vars

----------------------------------------------------------------------------
(* C1, C7: the normalizer. *)

\* the characters that end a token: the replaced class and whitespace
Delimiter(c) == c \in Range(chars_to_replace) \cup Whitespace

\* <<i, j>>: text[i..j] is a maximal run of non-delimiter characters
TokenSpans(t) ==
    {sp \in (1..Len(t)) \X (1..Len(t)) :
        /\ sp[1] <= sp[2]
        /\ \A k \in sp[1]..sp[2] : ~Delimiter(t[k])
        /\ (sp[1] = 1 \/ Delimiter(t[sp[1] - 1]))
        /\ (sp[2] = Len(t) \/ Delimiter(t[sp[2] + 1]))}

\* the runs that are entirely alphabetic, of length >= 2 and not a stopword
KeptSpans(t) ==
    {sp \in TokenSpans(t) :
        /\ \A k \in sp[1]..sp[2] : IsAlphaChar(t[k])
        /\ sp[2] - sp[1] + 1 >= 2
        /\ Str(Lower(SubSeq(t, sp[1], sp[2]))) \notin STOPWORDS}

\* C1: clean_text_to_words returns, in input order and without
\* deduplication, exactly the lowercased maximal non-delimiter runs of the
\* text that are all-alphabetic, of length >= 2 and not stopwords; so every
\* returned token is lowercase, alphabetic, of length >= 2, not a stopword.
NormalizeContract ==
    stage # "input" =>
        LET K == KeptSpans(text) IN
        /\ Len(words) = Cardinality(K)
        /\ \A sp \in K :
              words[1 + Cardinality({q \in K : q[1] < sp[1]})]
                  = Lower(SubSeq(text, sp[1], sp[2]))
        /\ \A i \in 1..Len(words) :
              /\ Len(words[i]) >= 2
              /\ \A k \in 1..Len(words[i]) : words[i][k] \in LowerSet
              /\ Str(words[i]) \notin STOPWORDS

\* a kept word next to a token dropped whole for its digit
NormalizeWitness ==
    /\ stage = "done"
    /\ text = <<"a", "7", " ", "n", "A">>
    /\ words = << <<"n", "a">> >>

\* C7: normalizing the space-joined output of the normalizer returns the
\* same token sequence.
NormalizeIdempotent == stage = "renormalized" => rewords = words

\* a renormalized run whose first pass lowercased and filtered the text
IdempotentWitness ==
    /\ stage = "renormalized"
    /\ text = <<"A", "n", " ", "n", "A">>
    /\ rewords = << <<"n", "a">> >>

----------------------------------------------------------------------------
(* C2: the ranking step. *)

Occurrences(ts, w) == Cardinality({i \in 1..Len(ts) : ts[i] = w})

FirstOccurrence(ts, w) == CHOOSE i \in 1..Len(ts) :
    ts[i] = w /\ \A j \in 1..(i - 1) : ts[j] # w

\* u is ranked before v: greater count, or equal count and earlier first occurrence
RankedBefore(ts, u, v) ==
    \/ Occurrences(ts, u) > Occurrences(ts, v)
    \/ /\ Occurrences(ts, u) = Occurrences(ts, v)
       /\ FirstOccurrence(ts, u) < FirstOccurrence(ts, v)

\* C2: the ranking returns the first min(limit, distinct words) entries of
\* the (word, count) list, one per distinct word, ordered by descending
\* count with equal counts in order of first occurrence.
RankContract ==
    stage = "done" =>
        LET D == Range(tokens) IN
        /\ Len(ranked) = (IF limit < Cardinality(D) THEN limit ELSE Cardinality(D))
        /\ \A k \in 1..Len(ranked) :
              /\ ranked[k][1] \in D
              /\ ranked[k][2] = Occurrences(tokens, ranked[k][1])
              /\ Cardinality({u \in D : RankedBefore(tokens, u, ranked[k][1])}) = k - 1

\* a truncated ranking in which two words tie and the earlier one comes first
RankWitness ==
    /\ stage = "done"
    /\ tokens = <<"cat", "fox", "dog", "fox", "dog">>
    /\ limit = 2
    /\ ranked = << <<"fox", 2>>, <<"dog", 2>> >>

----------------------------------------------------------------------------
(* C8: title extraction. *)

\* the line starts with "title:" compared case-insensitively
IsTitleLine(line) ==
    /\ Len(line) >= 6
    /\ \A k \in 1..6 : LowerChar(line[k]) = TitlePrefix[k]

\* C8: the title is the trimmed remainder, after the first colon, of the
\* first line that starts with "title:" ignoring case (later colons and
\* later title lines are ignored), and "Unknown Title" if there is no such line.
TitleContract ==
    stage = "done" =>
        LET T == {i \in 1..Len(doc_lines) : IsTitleLine(doc_lines[i])} IN
        IF T = {}
        THEN Str(doc_title) = "Unknown Title"
        ELSE LET i == CHOOSE k \in T : \A j \in T : k <= j
             IN  doc_title = Strip(SubSeq(doc_lines[i], 7, Len(doc_lines[i])))

\* the second line is the first title line, and its remainder holds a colon
TitleWitness ==
    /\ stage = "done"
    /\ Len(doc_lines) = 2
    /\ Str(doc_lines[1]) = " Title: x"
    /\ Str(doc_lines[2]) = "title: a:b"
    /\ Str(doc_title) = "a:b"

----------------------------------------------------------------------------
(* C3, C4, C5, C6, C9, C10: the application. *)

\* the (word, count) pairs of WordFrequency rows
Pairs(rows) == [i \in 1..Len(rows) |-> <<rows[i].word, rows[i].frequency>>]

\* the last request was a load that fetched a document
Fetched(req) == req.kind = "load" /\ req.web.raises = ""

\* the last request was a load whose fetch raised
FetchRaised(req) == req.kind = "load" /\ req.web.raises \notin {"", "unused"}

\* the book titled as the document exists once, with the URL of the load
\* and exactly the entries of compute_top_words(text, 10)
StoredAsAnalyzed(bs, wfs, req) ==
    \E top \in {compute_top_words(req.web.text, TopLimit)} :
    \E B \in {BooksTitled(bs, extract_title_from_gutenberg(req.web.text))} :
        /\ Cardinality(B) = 1
        /\ \A pk \in B :
              /\ bs[pk].gutenberg_url = Strip(req.url)
              /\ Len(FrequenciesOf(wfs, pk)) = Len(top)
              /\ Range(Pairs(FrequenciesOf(wfs, pk))) = Range(top)

\* C3: a search for a title that a stored title equals ignoring case
\* returns such a book with its stored entries, and "not found" is reported
\* only when no stored title matches ignoring case.
SearchFindsStoredTitle ==
    (request.kind = "search" /\ Strip(request.title) # <<>>) =>
        LET M == {pk \in 1..Len(books) :
                     Lower(books[pk].title) = Lower(Strip(request.title))}
        IN  /\ M # {} =>
                 /\ response.status = 200
                 /\ response.book # <<>>
                 /\ response.book[1].pk \in M
                 /\ response.word_frequencies # <<>>
                 /\ Range(response.word_frequencies[1])
                       = Range(FrequenciesOf(wordfreqs, response.book[1].pk))
            /\ response.message = NotFound => M = {}

\* C4: after a successful load of text X with title T, the entries stored
\* for the book titled T are exactly the pairs of compute_top_words(X, 10)
\* and its URL is the URL of the load.
LoadReplacesEntries ==
    (Fetched(request) /\ response.error = "") =>
        StoredAsAnalyzed(books, wordfreqs, request)

\* "Emma" is analyzed again, after "EMMA" was stored, from the short document
ReloadWitness ==
    /\ Fetched(request)
    /\ response.error = ""
    /\ request.web.text = DocEmma
    /\ response.message = UpdatedMessage(<<"E", "m", "m", "a">>)
    /\ Len(books) >= 2
    /\ Str(books[1].title) = "Emma"
    /\ wordfreqs[1].book = 2

\* C5: the update of one load is all-or-nothing: if a write fails, the
\* stored books, URLs and entries are what they were before the load and an
\* error is reported; otherwise the book, its URL and the complete new
\* entry list are stored together.
AtomicUpdate ==
    [][Fetched(request') =>
          IF request'.fail_at # 0
          THEN /\ books' = books
               /\ wordfreqs' = wordfreqs
               /\ response'.error # ""
               /\ response'.book = <<>>
          ELSE /\ response'.error = ""
               /\ \E pk \in 1..Len(books') :
                     /\ books'[pk].title = analysis'.title
                     /\ books'[pk].gutenberg_url = Strip(request'.url)
                     /\ Pairs(FrequenciesOf(wordfreqs', pk)) = analysis'.top_words]_vars

\* the second insert of a re-analysis failed and the ten old entries stand
RollbackWitness ==
    /\ Fetched(request)
    /\ request.web.text = DocEmma
    /\ request.fail_at = 4
    /\ response.error = UnexpectedError
    /\ Len(books) >= 1
    /\ Len(FrequenciesOf(wordfreqs, 1)) = TopLimit

\* C6: a load whose fetch fails, whatever the cause, ends in the one
\* "fetch failed" outcome after exactly one fetch attempt, returns no book
\* and no frequency list, and leaves the stored data unchanged.
FetchFailureSingleOutcome ==
    [][FetchRaised(request') =>
          /\ response'.error = FetchFailed
          /\ response'.book = <<>>
          /\ response'.word_frequencies = <<>>
          /\ fetch_attempts' = 1
          /\ books' = books
          /\ wordfreqs' = wordfreqs]_vars

\* C9: every stored book has at most 10 entries, no two entries of a book
\* have the same word, every count is positive, and no two books have the
\* same title.
StoredEntriesWellFormed ==
    /\ \A pk \in 1..Len(books) :
          LET rows == FrequenciesOf(wordfreqs, pk) IN
          /\ Len(rows) <= 10
          /\ \A i, j \in 1..Len(rows) : i # j => rows[i].word # rows[j].word
          /\ \A i \in 1..Len(rows) : rows[i].frequency >= 1
    /\ \A i, j \in 1..Len(books) : i # j => books[i].title # books[j].title

\* three books are stored, one of them with the ten entries kept from a
\* document of more than ten distinct words, and a load has just failed
TenEntriesWitness ==
    /\ Len(books) = 3
    /\ \E pk \in 1..Len(books) : Len(FrequenciesOf(wordfreqs, pk)) = 10
    /\ request.kind = "load"
    /\ response.error # ""

\* C10: the entry list shown for a book, by the load that stored it and by
\* a later search, is the sequence the ranking produced: descending count,
\* equal counts in first-occurrence order.
ShownInRankingOrder ==
    (response.status = 200 /\ response.book # <<>>) =>
        /\ Pairs(response.word_frequencies[1])
              = Pairs(Take(FrequenciesOf(wordfreqs, response.book[1].pk), TopLimit))
        /\ Fetched(request) =>
              Pairs(response.word_frequencies[1])
                  = compute_top_words(request.web.text, TopLimit)

=============================================================================
